---- MODULE Spec2Model ----
(***************************************************************************)
(* Model of extract_text_from_pdf (src/main.py): a linear pipeline of      *)
(* existence check, language check, rasterization, per-page recognition    *)
(* and output write, wrapped in nested try/except blocks.  The external    *)
(* collaborators (os.path.exists, pytesseract.get_languages,               *)
(* convert_from_path, pytesseract.image_to_string, open/write) answer      *)
(* nondeterministically the first time they are asked; their answers are   *)
(* recorded so that a second invocation on the same environment sees the   *)
(* same answers.                                                           *)
(*                                                                         *)
(* Strings are sequences of tokens; a token is a one-character string or   *)
(* a literal fragment of an f-string.                                      *)
(***************************************************************************)
EXTENDS Integers, Sequences, FiniteSets, TLC

\* ---------------------------------------------------------------- bounds
MaxPages == 3       \* longest page sequence the rasterizer returns
MaxLangLen == 3     \* longest language specification, in characters
MaxRuns == 2        \* invocations on the same request and environment

\* ------------------------------------------------------------- alphabets
NL == "\n"
PLUS == "+"
LangChars == {"e", "o", PLUS}
\* codes an installed engine can report (the requested codes may be others)
KnownCodes == {<<"e">>}
\* texts recognition can return; the empty string is one of them
Texts == {<< >>, <<"a">>}
OldContent == <<"z">>

\* exceptions the collaborators raise
QueryExcs == {"TesseractNotFoundError"}
RasterExcs == {"PDFPageCountError"}
PageExcs == {"TesseractError", "RuntimeError"}
OpenExcs == {"PermissionError"}
\* f.write fails either before any byte reaches the file (encoding) or midway
EncodeExcs == {"UnicodeEncodeError"}
FlushExcs == {"OSError"}

RECURSIVE SeqsUpTo(_, _)
SeqsUpTo(S, n) ==
    IF n = 0 THEN {<< >>}
    ELSE LET shorter == SeqsUpTo(S, n - 1)
         IN  shorter \cup {Append(s, c) : s \in {t \in shorter : Len(t) = n - 1}, c \in S}

\* ------------------------------------------------------- pure functions
\* Python's exception class hierarchy, as far as the except clauses see it
Parent(cls) ==
    CASE cls = "FileNotFoundError" -> "OSError"
      [] cls = "PermissionError" -> "OSError"
      [] cls = "TesseractNotFoundError" -> "OSError"
      [] cls = "OSError" -> "Exception"
      [] cls = "UnicodeEncodeError" -> "ValueError"
      [] cls = "ValueError" -> "Exception"
      [] cls = "TesseractError" -> "RuntimeError"
      [] cls = "RuntimeError" -> "Exception"
      [] cls = "PDFPageCountError" -> "Exception"
      [] cls = "Exception" -> "BaseException"
      [] OTHER -> "BaseException"

RECURSIVE IsInstance(_, _)
IsInstance(e, cls) ==
    IF e = cls THEN TRUE
    ELSE IF e = "BaseException" THEN FALSE
    ELSE IsInstance(Parent(e), cls)

\* str.split('+'): the codes between the separators, empty codes included
RECURSIVE SplitFrom(_, _, _)
SplitFrom(s, k, cur) ==
    IF k > Len(s) THEN <<cur>>
    ELSE IF s[k] = PLUS THEN <<cur>> \o SplitFrom(s, k + 1, << >>)
    ELSE SplitFrom(s, k + 1, Append(cur, s[k]))

Split(s) == SplitFrom(s, 1, << >>)

\* mutant: only the first requested code is looked up
UnsupportedFirstOnly(langs, supported_langs) ==
    {k \in 1..1 : Split(langs)[k] \notin supported_langs}

\* positions of the requested codes the engine does not support (lines 31-33)
UnsupportedCodes(langs, supported_langs) ==
    {k \in 1..Len(Split(langs)) : Split(langs)[k] \notin supported_langs}

\* str() of a page number
Digits == <<"0", "1", "2", "3", "4", "5", "6", "7", "8", "9">>
ToStr(n) == Digits[n + 1]

\* the two f-strings appended for a failed page (lines 63 and 67); the
\* source's literals are Russian and are rendered here in ASCII
OcrError == "[OCR ERROR ON PAGE "
UnknownError == "[UNKNOWN ERROR ON PAGE "
OcrErrorEntry(i) == <<NL, OcrError, ToStr(i + 1), "]", NL>>
UnknownErrorEntry(i) == <<NL, UnknownError, ToStr(i + 1), "]", NL>>

\* mutant: every part is followed by a newline, the last one too
RECURSIVE JoinTrailing(_)
JoinTrailing(parts) ==
    IF Len(parts) = 0 THEN << >>
    ELSE parts[1] \o <<NL>> \o JoinTrailing(Tail(parts))

\* "\n".join(all_text)
RECURSIVE Join(_)
Join(parts) ==
    IF Len(parts) = 0 THEN << >>
    ELSE IF Len(parts) = 1 THEN parts[1]
    ELSE parts[1] \o <<NL>> \o Join(Tail(parts))

\* mutant: the ValueError clause leaves the flag set
OuterHandlerValueErrorPasses(e) ==
    IF IsInstance(e, "FileNotFoundError") THEN "False"
    ELSE IF IsInstance(e, "ValueError") THEN "True"
    ELSE IF IsInstance(e, "Exception") THEN "False"
    ELSE "propagate"

\* mutant: the last clause catches OSError only
OuterHandlerNoCatchAll(e) ==
    IF IsInstance(e, "FileNotFoundError") THEN "False"
    ELSE IF IsInstance(e, "ValueError") THEN "False"
    ELSE IF IsInstance(e, "OSError") THEN "False"
    ELSE "propagate"

\* the three outer except clauses (lines 79-87): the value success takes, or
\* "propagate" when no clause matches
OuterHandler(e) ==
    IF IsInstance(e, "FileNotFoundError") THEN "False"
    ELSE IF IsInstance(e, "ValueError") THEN "False"
    ELSE IF IsInstance(e, "Exception") THEN "False"
    ELSE "propagate"

\* mutant: the first clause catches the base class RuntimeError
PageHandlerCatchesRuntimeError(e) ==
    IF IsInstance(e, "RuntimeError") THEN "ocr"
    ELSE IF IsInstance(e, "Exception") THEN "unknown"
    ELSE "propagate"

\* which except clause of the page loop takes the exception (lines 61-68)
PageHandler(e) ==
    IF IsInstance(e, "TesseractError") THEN "ocr"
    ELSE IF IsInstance(e, "Exception") THEN "unknown"
    ELSE "propagate"

\* mutant: the images are visited last to first
ImageAtReversed(imgs, i) == imgs[Len(imgs) - i]

\* enumerate(images): the image visited at 0-based position i
ImageAt(imgs, i) == imgs[i + 1]

\* mutant: the file is opened in append mode
OpenForAppend(f) == [exists |-> TRUE, content |-> f.content]

\* open(output_file, "w"): an existing file is truncated, a missing one created
OpenForWrite(f) == [exists |-> TRUE, content |-> << >>]

\* f.write(s) on the freshly opened file
WriteAll(f, s) == [exists |-> TRUE, content |-> f.content \o s]

\* mutant: the existence gate never raises
ExistsGateNever(exists) == "none"

\* the existence gate (lines 25-26): the exception it raises, or "none"
ExistsGate(exists) == IF ~exists THEN "FileNotFoundError" ELSE "none"

\* mutant: an empty image list is accepted
ImagesGateNever(imgs) == "none"

\* the empty-result gate after rasterization (lines 47-48)
ImagesGate(imgs) == IF Len(imgs) = 0 THEN "ValueError" ELSE "none"

\* ----------------------------------------------------------------- state
VARIABLES
    pdf_exists,     \* os.path.exists(pdf_path)
    languages,      \* the languages argument
    engine_langs,   \* the codes the installed engine supports
    query_resp,     \* recorded answer of pytesseract.get_languages()
    raster_resp,    \* recorded answer of convert_from_path
    ocr_resp,       \* recorded answer of image_to_string, per page image
    write_resp,     \* recorded answer of open / f.write
    file,           \* the file at output_file
    pc,             \* position in extract_text_from_pdf
    success,        \* local variable success
    exc,            \* the exception in flight to the outer except clauses
    images,         \* local variable images
    i,              \* 0-based loop index of enumerate(images)
    all_text,       \* local variable all_text
    ret,            \* "none", "True", "False", or "raised" if an error escaped
    calls,          \* collaborator calls made by the current invocation
    file0,          \* the output file when the current invocation started
    run,            \* number of the current invocation
    first           \* return value and output file of the first invocation

vars == <<pdf_exists, languages, engine_langs, query_resp, raster_resp, ocr_resp,
          write_resp, file, pc, success, exc, images, i, all_text, ret, calls,
          file0, run, first>>

request == <<pdf_exists, languages, engine_langs>>
responses == <<query_resp, raster_resp, ocr_resp, write_resp>>
history == <<file0, run, first>>

NoFile == [exists |-> FALSE, content |-> << >>]
Unset == [kind |-> "unset", exc |-> "none", n |-> 0, text |-> << >>]
Raises(e) == [kind |-> "raise", exc |-> e, n |-> 0, text |-> << >>]
Pages(n) == [kind |-> "pages", exc |-> "none", n |-> n, text |-> << >>]
Text(t) == [kind |-> "text", exc |-> "none", n |-> 0, text |-> t]
Ok == [kind |-> "ok", exc |-> "none", n |-> 0, text |-> << >>]
OpenFails(e) == [kind |-> "open_fail", exc |-> e, n |-> 0, text |-> << >>]
WriteFails(e, k) == [kind |-> "write_fail", exc |-> e, n |-> k, text |-> << >>]

Call(op, arg) == [op |-> op, arg |-> arg]

RECURSIVE Range(_, _)
Range(a, b) == IF a > b THEN << >> ELSE <<a>> \o Range(a + 1, b)

\* a collaborator answers r: freely the first time, as recorded afterwards
Answers(recorded, r) == recorded = Unset \/ recorded = r

Init ==
    /\ pdf_exists \in BOOLEAN
    /\ languages \in SeqsUpTo(LangChars, MaxLangLen)
    /\ engine_langs \in SUBSET KnownCodes
    /\ file \in {NoFile, [exists |-> TRUE, content |-> OldContent]}
    /\ query_resp = Unset
    /\ raster_resp = Unset
    /\ ocr_resp = [p \in 1..MaxPages |-> Unset]
    /\ write_resp = Unset
    /\ pc = "exists"
    /\ success = TRUE
    /\ exc = "none"
    /\ images = << >>
    /\ i = 0
    /\ all_text = << >>
    /\ ret = "none"
    /\ calls = << >>
    /\ file0 = file
    /\ run = 1
    /\ first = [ret |-> "none", file |-> NoFile]

\* lines 25-26
CheckExists ==
    /\ pc = "exists"
    /\ calls' = Append(calls, Call("exists", 0))
    /\ exc' = ExistsGate(pdf_exists)
    /\ pc' = IF exc' = "none" THEN "langs" ELSE "handler"
    /\ UNCHANGED <<request, responses, history, file, success, images, i, all_text, ret>>

\* lines 29-36
CheckLanguages ==
    /\ pc = "langs"
    /\ calls' = Append(calls, Call("get_languages", 0))
    /\ \E r \in {Ok} \cup {Raises(e) : e \in QueryExcs} :
        /\ Answers(query_resp, r)
        /\ query_resp' = r
        /\ exc' = IF r.kind = "raise" THEN r.exc
                  ELSE IF UnsupportedCodes(languages, engine_langs) # {} THEN "ValueError"
                  ELSE "none"
    /\ pc' = IF exc' = "none" THEN "convert" ELSE "handler"
    /\ UNCHANGED <<request, raster_resp, ocr_resp, write_resp, history, file, success,
                   images, i, all_text, ret>>

\* lines 39-54
Convert ==
    /\ pc = "convert"
    /\ calls' = Append(calls, Call("convert_from_path", 0))
    /\ \E r \in {Pages(n) : n \in 0..MaxPages} \cup {Raises(e) : e \in RasterExcs} :
        /\ Answers(raster_resp, r)
        /\ raster_resp' = r
        /\ IF r.kind = "raise"
           THEN /\ exc' = r.exc
                /\ images' = images
           ELSE /\ images' = Range(1, r.n)
                /\ exc' = ImagesGate(images')
    /\ pc' = IF exc' = "none" THEN "ocr" ELSE "handler"
    /\ all_text' = << >>
    /\ i' = 0
    /\ UNCHANGED <<request, query_resp, ocr_resp, write_resp, history, file, success, ret>>

\* lines 55-68: one iteration of the page loop
OcrPage ==
    /\ pc = "ocr"
    /\ i < Len(images)
    /\ LET image == ImageAt(images, i) IN
        /\ calls' = Append(calls, Call("image_to_string", image))
        /\ \E r \in {Text(t) : t \in Texts} \cup {Raises(e) : e \in PageExcs} :
            /\ Answers(ocr_resp[image], r)
            /\ ocr_resp' = [ocr_resp EXCEPT ![image] = r]
            /\ IF r.kind = "text"
               THEN /\ all_text' = Append(all_text, r.text)
                    /\ UNCHANGED <<success, exc, pc>>
               ELSE IF PageHandler(r.exc) = "ocr"
               THEN /\ all_text' = Append(all_text, OcrErrorEntry(i))
                    /\ success' = FALSE
                    /\ UNCHANGED <<exc, pc>>
               ELSE IF PageHandler(r.exc) = "unknown"
               THEN /\ all_text' = Append(all_text, UnknownErrorEntry(i))
                    /\ success' = FALSE
                    /\ UNCHANGED <<exc, pc>>
               ELSE /\ exc' = r.exc
                    /\ pc' = "handler"
                    /\ UNCHANGED <<all_text, success>>
    /\ i' = i + 1
    /\ UNCHANGED <<request, query_resp, raster_resp, write_resp, history, file, images, ret>>

\* lines 71-77
WriteOutput ==
    /\ pc = "ocr"
    /\ i = Len(images)
    /\ LET s == Join(all_text)
           partial == {k \in 0..Len(s) : k < Len(s) \/ k = 0}
       IN \E r \in {Ok} \cup {OpenFails(e) : e \in OpenExcs}
                   \cup {WriteFails(e, k) : e \in FlushExcs, k \in partial}
                   \cup {WriteFails(e, 0) : e \in EncodeExcs} :
            /\ Answers(write_resp, r)
            /\ write_resp' = r
            /\ IF r.kind = "open_fail"
               THEN /\ calls' = Append(calls, Call("open", 0))
                    /\ file' = file
                    /\ exc' = r.exc
               ELSE IF r.kind = "write_fail"
               THEN /\ calls' = calls \o <<Call("open", 0), Call("write", 0)>>
                    /\ file' = WriteAll(OpenForWrite(file), SubSeq(s, 1, r.n))
                    /\ exc' = r.exc
               ELSE /\ calls' = calls \o <<Call("open", 0), Call("write", 0)>>
                    /\ file' = WriteAll(OpenForWrite(file), s)
                    /\ exc' = "none"
    /\ pc' = IF exc' = "none" THEN "return" ELSE "handler"
    /\ UNCHANGED <<request, query_resp, raster_resp, ocr_resp, history, success, images,
                   i, all_text, ret>>

\* lines 79-87
Handler ==
    /\ pc = "handler"
    /\ IF OuterHandler(exc) = "propagate"
       THEN /\ ret' = "raised"
            /\ pc' = "done"
            /\ UNCHANGED <<success, exc>>
       ELSE /\ success' = (OuterHandler(exc) = "True")
            /\ exc' = "none"
            /\ pc' = "return"
            /\ ret' = ret
    /\ UNCHANGED <<request, responses, history, file, images, i, all_text, calls>>

\* line 89
Return ==
    /\ pc = "return"
    /\ ret' = IF success THEN "True" ELSE "False"
    /\ pc' = "done"
    /\ UNCHANGED <<request, responses, history, file, success, exc, images, i, all_text,
                   calls>>

\* the caller invokes the function again with the same request (line 21)
Rerun ==
    /\ pc = "done"
    /\ run < MaxRuns
    /\ run' = run + 1
    /\ first' = IF run = 1 THEN [ret |-> ret, file |-> file] ELSE first
    /\ file0' = file
    /\ pc' = "exists"
    /\ success' = TRUE
    /\ exc' = "none"
    /\ images' = << >>
    /\ i' = 0
    /\ all_text' = << >>
    /\ ret' = "none"
    /\ calls' = << >>
    /\ UNCHANGED <<request, responses, file>>

Next ==
    \/ CheckExists
    \/ CheckLanguages
    \/ Convert
    \/ OcrPage
    \/ WriteOutput
    \/ Handler
    \/ Return
    \/ Rerun

Spec == Init /\ [][Next]_vars

\* the function is sequential code: whatever step is enabled is taken
FairSpec == Spec /\ WF_vars(Next)

TypeOK ==
    /\ pc \in {"exists", "langs", "convert", "ocr", "handler", "return", "done"}
    /\ success \in BOOLEAN
    /\ ret \in {"none", "True", "False", "raised"}
    /\ i \in 0..MaxPages
    /\ Len(all_text) <= MaxPages
    /\ run \in 1..MaxRuns

\* ------------------------------------------------------- claim helpers
Ops(op) == {k \in 1..Len(calls) : calls[k].op = op}
Called(op) == Ops(op) # {}
OcrCalls == SelectSeq(calls, LAMBDA c : c.op = "image_to_string")
Returned == pc = "done" /\ ret \in {"True", "False"}
NPages == IF raster_resp.kind = "pages" THEN raster_resp.n ELSE 0
LoopOver == pc \in {"handler", "return", "done"} \/ (pc = "ocr" /\ i = Len(images))
\* the marker text itself, without surrounding newlines
BareMarker(kind, p) == <<kind, ToStr(p), "]">>
\* the result page p contributes, read off the recorded recognition outcome
PageResult(p) ==
    IF ocr_resp[p].kind = "text" THEN ocr_resp[p].text
    ELSE IF ocr_resp[p].exc = "TesseractError"
    THEN <<NL>> \o BareMarker(OcrError, p) \o <<NL>>
    ELSE <<NL>> \o BareMarker(UnknownError, p) \o <<NL>>

\* C1: the returned flag is true exactly when the source existed, every
\* requested code was supported, rasterization returned at least one page,
\* every page's recognition returned text (possibly empty) and the write
\* succeeded.
C1_SuccessIff ==
    pc = "done" =>
        (ret = "True" <=>
            /\ pdf_exists
            /\ \A k \in 1..Len(Split(languages)) : Split(languages)[k] \in engine_langs
            /\ raster_resp.kind = "pages" /\ raster_resp.n >= 1
            /\ \A p \in 1..NPages : ocr_resp[p].kind = "text"
            /\ write_resp.kind = "ok")

C1_Witness ==
    /\ pc = "done" /\ ret = "True"
    /\ NPages >= 2
    /\ \E p \in 1..NPages : ocr_resp[p].text = << >>

\* C2: with n >= 1 pages, recognition is invoked once per page in ascending
\* page order, a failed page does not stop the later ones, and the result
\* list has one entry per page: its text, or its error marker.
C2_OnePerPageInOrder ==
    NPages >= 1 /\ pc \notin {"exists", "langs", "convert"} =>
        /\ OcrCalls = [k \in 1..i |-> Call("image_to_string", k)]
        /\ Len(all_text) = i
        /\ \A p \in 1..i : all_text[p] = PageResult(p)
        /\ (LoopOver => i = NPages)

C2_Witness ==
    /\ pc = "done"
    /\ NPages = 3
    /\ ocr_resp[1].kind = "raise"
    /\ ocr_resp[2].kind = "text"
    /\ ocr_resp[3].kind = "raise"
    /\ Len(all_text) = 3

\* C3: if the write fails (open fails, or writing fails after the open), the
\* outcome is failure and the output file is as it was before the
\* invocation.
C3_FailedWriteLeavesFile ==
    pc = "done" /\ write_resp.kind \in {"open_fail", "write_fail"} =>
        ret = "False" /\ file = file0

\* C4: when the source does not exist the outcome is failure, the output
\* file is untouched, and neither the language query, the rasterizer,
\* recognition nor the write is invoked.
C4_MissingSourceStopsAll ==
    ~pdf_exists =>
        /\ \A k \in 1..Len(calls) : calls[k].op = "exists"
        /\ file = file0
        /\ (pc = "done" => ret = "False")

C4_Witness ==
    /\ ~pdf_exists
    /\ pc = "done"
    /\ Called("exists")
    /\ file0.exists

\* C5: when some requested code (an empty one included) is not supported, the
\* outcome is failure, decided before rasterization: no rasterizer call, no
\* recognition, no output written.
C5_UnsupportedBeforeRaster ==
    (\E k \in 1..Len(Split(languages)) : Split(languages)[k] \notin engine_langs) =>
        /\ ~Called("convert_from_path")
        /\ ~Called("image_to_string")
        /\ ~Called("open")
        /\ file = file0
        /\ (pc = "done" => ret = "False")

C5_Witness ==
    /\ pc = "done"
    /\ pdf_exists
    /\ query_resp.kind = "ok"
    /\ Called("get_languages")
    /\ Len(Split(languages)) = 2
    /\ Split(languages)[1] \in engine_langs
    /\ Split(languages)[2] = << >>

\* C6: if rasterization fails or yields no page, the outcome is failure,
\* recognition is never invoked and the output file is left unchanged.
C6_NoPagesNoOutput ==
    raster_resp.kind = "raise" \/ (raster_resp.kind = "pages" /\ raster_resp.n = 0) =>
        /\ ~Called("image_to_string")
        /\ ~Called("open")
        /\ file = file0
        /\ (pc = "done" => ret = "False")

C6_Witness ==
    /\ pc = "done"
    /\ Called("convert_from_path")
    /\ raster_resp.kind = "pages"
    /\ raster_resp.n = 0
    /\ file0.exists

Sum(f, n) == LET RECURSIVE S(_)
                 S(k) == IF k = 0 THEN 0 ELSE f[k] + S(k - 1)
             IN S(n)
\* where page p's result starts in the joined text (0-based offset)
Offset(p) == Sum([q \in 1..MaxPages + 1 |-> Len(PageResult(q)) + 1], p - 1)
JoinedInFile ==
    /\ file.exists
    /\ Len(file.content) = Offset(NPages + 1) - 1
    /\ \A p \in 1..NPages :
        /\ SubSeq(file.content, Offset(p) + 1, Offset(p) + Len(PageResult(p))) = PageResult(p)
        /\ (p < NPages => file.content[Offset(p + 1)] = NL)
WroteOk == write_resp.kind = "ok" /\ Called("write")
Page2Fails ==
    /\ NPages = 3
    /\ ocr_resp[1].kind = "text"
    /\ ocr_resp[2].exc = "TesseractError"
    /\ ocr_resp[3].kind = "text"

\* C7 as stated: after a successful write the file is the n results joined by
\* single newlines, replacing the old content; for 3 pages with page 2
\* failing, block 2 is the bare marker with nothing around it.
C7_Original ==
    WroteOk =>
        /\ JoinedInFile
        /\ (Page2Fails =>
              file.content = ocr_resp[1].text \o <<NL>> \o BareMarker(OcrError, 2)
                             \o <<NL>> \o ocr_resp[3].text)

\* C7 as amended: the same, except that block 2 is the page-2 marker wrapped
\* in one leading and one trailing newline.
C7_JoinedWithWrappedMarker ==
    WroteOk =>
        /\ JoinedInFile
        /\ (Page2Fails =>
              file.content = ocr_resp[1].text \o <<NL>> \o <<NL>> \o BareMarker(OcrError, 2)
                             \o <<NL>> \o <<NL>> \o ocr_resp[3].text)

C7_Witness ==
    /\ pc = "done"
    /\ WroteOk
    /\ Page2Fails
    /\ file0.exists
    /\ ocr_resp[1].text # << >>

\* C8: a second invocation with the same request, environment and
\* collaborator answers returns the same flag and leaves the same file.
C8_SecondRunSame ==
    pc = "done" /\ run >= 2 => ret = first.ret /\ file = first.file

C8_Witness ==
    /\ pc = "done"
    /\ run = 2
    /\ WroteOk
    /\ file.content # << >>
    /\ first.ret = "False"

\* C9: a failed page i records an OCR-error marker for page i when the engine
\* raised TesseractError and an unknown-error marker for page i on any other
\* exception, whatever happened on the other pages.
C9_MarkerKindAndNumber ==
    \A p \in 1..Len(all_text) :
        ocr_resp[p].kind = "raise" =>
            /\ Len(all_text[p]) = 5
            /\ all_text[p][2] = (IF ocr_resp[p].exc = "TesseractError"
                                 THEN OcrError
                                 ELSE UnknownError)
            /\ all_text[p][3] = ToStr(p)

C9_Witness ==
    /\ Len(all_text) = 3
    /\ ocr_resp[1].exc = "RuntimeError"
    /\ ocr_resp[2].exc = "TesseractError"
    /\ ocr_resp[3].exc = "RuntimeError"

Rank(c) ==
    CASE c.op = "exists" -> 1
      [] c.op = "get_languages" -> 2
      [] c.op = "convert_from_path" -> 3
      [] c.op = "image_to_string" -> 4
      [] c.op = "open" -> 5
      [] c.op = "write" -> 6
StagesInOrder ==
    \A j, k \in 1..Len(calls) :
        j < k => \/ Rank(calls[j]) < Rank(calls[k])
                 \/ /\ calls[j].op = "image_to_string"
                    /\ calls[k].op = "image_to_string"
                    /\ calls[j].arg < calls[k].arg
NoErrorEscapes == ret # "raised" /\ (pc = "done" => ret \in {"True", "False"})
Aborted == pc \in {"handler", "done"} \/ (pc = "return" /\ ~Called("write"))

\* C10: every invocation terminates by returning a boolean, no stage failure
\* reaches the caller as an error, and the stages run at most once each in
\* the fixed order, none re-entered after a failure.
C10_TerminatesInOrder ==
    /\ [](StagesInOrder /\ NoErrorEscapes)
    /\ [][Aborted /\ run' = run => calls' = calls]_vars
    /\ (pc = "exists") ~> Returned

C10_Witness ==
    /\ Returned
    /\ ret = "False"
    /\ Len(calls) = 7
    /\ write_resp.kind = "write_fail"

====
